---- MODULE Spec2Model ----
(***************************************************************************)
(* A model of the PNGme chunk codec: the 4-byte chunk type, the chunk      *)
(* (length, type, data, crc) and the Png container (signature followed by  *)
(* chunks), as implemented in lib/png_spec and src/chunk_type.             *)
(*                                                                         *)
(* Representation of the Rust values:                                      *)
(*   u8      a number in 0..255                                            *)
(*   usize   a natural number                                              *)
(*   u32     its four bytes, a function [0..3 -> 0..255], index 0 the      *)
(*           least significant (a u32 may exceed the integers of TLC)     *)
(*   [u8;n], Vec<u8>, &[u8]   a sequence of u8                             *)
(*   Result  a record with a field ok, and chunk/err                       *)
(***************************************************************************)
EXTENDS Integers, Sequences, FiniteSets, TLC

\* ------------------------------------------------------------------ bounds
\* Longest chunk payload drawn as an input.
MaxData == 2

\* Most chunks a container in use holds.
MaxChunks == 3

\* Most chunks in a container that is encoded and handed to Png::try_from.
MaxDecoded == 2

\* Most bytes added to, or dropped from, the end of an encoded buffer.
MaxTail == 2

\* -------------------------------------------------------------- u8 and u32
Pow2(n) == 2 ^ n

\* util::Bit converted to u8: the index of the most significant bit of a byte.
MOST_SIG == 7

\* (byte >> bit) & 1, as a number.
BitOf(byte, bit) == (byte \div Pow2(bit)) % 2

\* util::get_bit
get_bit(byte, bit) == BitOf(byte, bit) # 0

\* The positions of the four bytes of a u32, 0 the least significant.
Limbs == 0..3

\* The u32 with the value n, for n below 2^31.
U32FromNat(n) == [k \in Limbs |-> (n \div (256 ^ k)) % 256]

\* usize::try_from(u32): exact, usize is at least 32 bits wide.  The value
\* is below 2^31 wherever the code converts (read_length has rejected the
\* rest).
UsizeFromU32(w) == ((w[3] * 256 + w[2]) * 256 + w[1]) * 256 + w[0]

\* A variant of to_be_bytes that puts the least significant byte first.
to_le_bytes(w) == << w[0], w[1], w[2], w[3] >>

\* u32::to_be_bytes: most significant byte first.
to_be_bytes(w) == << w[3], w[2], w[1], w[0] >>

\* u32::from_be_bytes: b[1] is the most significant byte.
from_be_bytes(b) == [k \in Limbs |-> b[4 - k]]

\* u32::try_from(usize) of Chunk::as_bytes: fails (expect panics) when the
\* value does not fit; every length the model builds is far below 2^31.
U32FromUsize(n) == U32FromNat(n)

\* a ^ b on 4-bit values.
XorNibble == [a \in 0..15 |-> [b \in 0..15 |->
  ((a + b) % 2)
  + 2 * (((a \div 2) + (b \div 2)) % 2)
  + 4 * (((a \div 4) + (b \div 4)) % 2)
  + 8 * (((a \div 8) + (b \div 8)) % 2)]]

\* a ^ b on u8.
Xor8(a, b) == 16 * XorNibble[a \div 16][b \div 16] + XorNibble[a % 16][b % 16]

\* a ^ b on u32.
XorU32(a, b) ==
  (0 :> Xor8(a[0], b[0])) @@ (1 :> Xor8(a[1], b[1]))
    @@ (2 :> Xor8(a[2], b[2])) @@ (3 :> Xor8(a[3], b[3]))

\* w >> 1 on u32.
ShiftRight1(w) ==
  [k \in Limbs |-> (w[k] \div 2) + (IF k < 3 THEN 128 * (w[k + 1] % 2) ELSE 0)]

\* w >> 8 on u32.
ShiftRight8(w) == [k \in Limbs |-> IF k < 3 THEN w[k + 1] ELSE 0]

\* ------------------------------------------------------ CRC_32_ISO_HDLC
\* The algorithm of the crc crate for CRC_32_ISO_HDLC (poly 0x04C11DB7,
\* init 0xFFFFFFFF, refin, refout, xorout 0xFFFFFFFF): a 256-entry table of
\* the reflected polynomial 0xEDB88320, one lookup for each byte.
CrcPolyReflected == [k \in Limbs |-> << 32, 131, 184, 237 >>[k + 1]]

\* init and xorout: 0xFFFFFFFF.
CrcAllOnes == [k \in Limbs |-> 255]

RECURSIVE CrcShift(_, _)
\* k steps of the reflected shift register.
CrcShift(reg, k) ==
  IF k = 0 THEN reg
  ELSE CrcShift(IF reg[0] % 2 = 1 THEN XorU32(ShiftRight1(reg), CrcPolyReflected)
                                  ELSE ShiftRight1(reg), k - 1)

\* The lookup table.
CrcTable == [i \in 0..255 |-> CrcShift(U32FromNat(i), 8)]

RECURSIVE CrcUpdate(_, _, _)
\* The register after the bytes input[i..] have been fed in; the register is
\* a u32 at every step.
CrcUpdate(reg, input, i) ==
  IF i <= Len(input) /\ reg[0] \in 0..255
    THEN CrcUpdate(XorU32(CrcTable[Xor8(reg[0], input[i])], ShiftRight8(reg)), input, i + 1)
    ELSE reg

\* Crc::<u32>::new(&crc::CRC_32_ISO_HDLC).checksum(bytes)
checksum(input) == XorU32(CrcUpdate(CrcAllOnes, input, 1), CrcAllOnes)

\* ------------------------------------------------------------ ChunkType
\* A variant of is_valid_byte that takes the whole range 'A'..'z'.
is_valid_byte_range(byte) == byte >= 65 /\ byte <= 122

\* ChunkType::is_valid_byte: A-Z or a-z.
is_valid_byte(byte) == (byte >= 97 /\ byte <= 122) \/ (byte >= 65 /\ byte <= 90)

\* ChunkTypeError::InvalidByte(Byte::<which>(value))
InvalidByte(which, value) == [kind |-> "InvalidByte", which |-> which, value |-> value]

\* A variant of ChunkType::try_from that looks at the bytes from the last to
\* the first.
ChunkType_try_from_backwards(value) ==
  LET ancillary == value[1]
      private == value[2]
      reserved == value[3]
      safe_to_copy == value[4]
  IN  IF ~is_valid_byte(safe_to_copy)
        THEN [ok |-> FALSE, err |-> InvalidByte("SafeToCopy", safe_to_copy)]
      ELSE IF ~is_valid_byte(reserved)
        THEN [ok |-> FALSE, err |-> InvalidByte("Reserved", reserved)]
      ELSE IF ~is_valid_byte(private)
        THEN [ok |-> FALSE, err |-> InvalidByte("Private", private)]
      ELSE IF ~is_valid_byte(ancillary)
        THEN [ok |-> FALSE, err |-> InvalidByte("Ancillary", ancillary)]
      ELSE [ok |-> TRUE,
            val |-> [ancillary |-> ancillary, private |-> private,
                     reserved |-> reserved, safe_to_copy |-> safe_to_copy]]

\* impl TryFrom<[u8; 4]> for ChunkType: the first byte that is not a letter
\* is reported with its position.
ChunkType_try_from(value) ==
  LET ancillary == value[1]
      private == value[2]
      reserved == value[3]
      safe_to_copy == value[4]
  IN  IF ~is_valid_byte(ancillary)
        THEN [ok |-> FALSE, err |-> InvalidByte("Ancillary", ancillary)]
      ELSE IF ~is_valid_byte(private)
        THEN [ok |-> FALSE, err |-> InvalidByte("Private", private)]
      ELSE IF ~is_valid_byte(reserved)
        THEN [ok |-> FALSE, err |-> InvalidByte("Reserved", reserved)]
      ELSE IF ~is_valid_byte(safe_to_copy)
        THEN [ok |-> FALSE, err |-> InvalidByte("SafeToCopy", safe_to_copy)]
      ELSE [ok |-> TRUE,
            val |-> [ancillary |-> ancillary, private |-> private,
                     reserved |-> reserved, safe_to_copy |-> safe_to_copy]]

\* A variant of bytes that gives the fields in the opposite order.
bytes_reversed(t) == << t.safe_to_copy, t.reserved, t.private, t.ancillary >>

\* ChunkType::bytes
bytes(t) == << t.ancillary, t.private, t.reserved, t.safe_to_copy >>

\* ChunkType::POSITION
POSITION == 5

\* A variant of is_property_bit_set without the shift.
is_property_bit_set_unshifted(byte) == (byte % 2) # 0

\* ChunkType::is_property_bit_set
is_property_bit_set(byte) == ((byte \div Pow2(POSITION)) % 2) # 0

\* ChunkType::is_critical
is_critical(t) == ~is_property_bit_set(t.ancillary)

\* ChunkType::is_public
is_public(t) == ~is_property_bit_set(t.private)

\* ChunkType::is_reserved_bit_valid
is_reserved_bit_valid(t) == ~is_property_bit_set(t.reserved)

\* ChunkType::is_safe_to_copy
is_safe_to_copy(t) == is_property_bit_set(t.safe_to_copy)

\* A variant of is_valid that looks at the four bytes only.
is_valid_bytes_only(t) ==
  /\ is_valid_byte(t.ancillary)
  /\ is_valid_byte(t.private)
  /\ is_valid_byte(t.reserved)
  /\ is_valid_byte(t.safe_to_copy)

\* ChunkType::is_valid
is_valid(t) ==
  /\ is_reserved_bit_valid(t)
  /\ is_valid_byte(t.ancillary)
  /\ is_valid_byte(t.private)
  /\ is_valid_byte(t.reserved)
  /\ is_valid_byte(t.safe_to_copy)

\* #[derive(PartialEq)] on ChunkType: the fields compared one by one.
ChunkType_eq(a, b) ==
  /\ a.ancillary = b.ancillary
  /\ a.private = b.private
  /\ a.reserved = b.reserved
  /\ a.safe_to_copy = b.safe_to_copy

\* ---------------------------------------------------------------- Chunk
\* Chunk::new
Chunk_new(chunk_type, data) == [chunk_type |-> chunk_type, data |-> data]

\* Chunk::data_length
data_length(c) == Len(c.data)

\* u32 addition: the sum modulo 2^32 and whether the true sum left the range
\* (a panic in a debug build, a wrapped value in a release build).
AddU32(a, b) ==
  LET c1 == (a[0] + b[0]) \div 256
      c2 == (a[1] + b[1] + c1) \div 256
      c3 == (a[2] + b[2] + c2) \div 256
      c4 == (a[3] + b[3] + c3) \div 256
  IN  [val |-> [k \in Limbs |->
                  CASE k = 0 -> (a[0] + b[0]) % 256
                    [] k = 1 -> (a[1] + b[1] + c1) % 256
                    [] k = 2 -> (a[2] + b[2] + c2) % 256
                    [] k = 3 -> (a[3] + b[3] + c3) % 256],
       overflow |-> c4 = 1]

\* Chunk::size where data_length is a u32: 4 + 4 + data_length + 4, summed
\* from the left.
size_u32(length) ==
  LET four == U32FromNat(4)
      s1 == AddU32(four, four)
      s2 == AddU32(s1.val, length)
      s3 == AddU32(s2.val, four)
  IN  [val |-> s3.val, overflow |-> s1.overflow \/ s2.overflow \/ s3.overflow]

\* A variant of size that counts the data only.
size_of_data(c) == data_length(c)

\* A variant of size that leaves out the crc field.
size_without_crc(c) == 4 + 4 + data_length(c)

\* Chunk::size
size(c) == 4 + 4 + data_length(c) + 4

\* Utf8Error: the number of bytes that were valid.
Utf8Error(valid_up_to) == [kind |-> "Utf8Error", valid_up_to |-> valid_up_to]

\* A continuation byte of UTF-8.
IsCont(b) == b >= 128 /\ b <= 191

\* The width of the UTF-8 sequence starting with the byte first, 0 when no
\* sequence starts with it.
utf8_char_width(first) ==
  IF first < 128 THEN 1
  ELSE IF first >= 194 /\ first <= 223 THEN 2
  ELSE IF first >= 224 /\ first <= 239 THEN 3
  ELSE IF first >= 240 /\ first <= 244 THEN 4
  ELSE 0

\* The second byte is allowed after the first byte of a 3- or 4-byte sequence.
SecondByteOk(first, second) ==
  CASE first = 224 -> second >= 160 /\ second <= 191
    [] first = 237 -> second >= 128 /\ second <= 159
    [] first = 240 -> second >= 144 /\ second <= 191
    [] first = 244 -> second >= 128 /\ second <= 143
    [] OTHER -> IsCont(second)

\* std::str::from_utf8 from index i on, chars holding the characters read
\* so far: the characters of the text, or Utf8Error at the first byte
\* sequence that is no UTF-8.
RECURSIVE run_utf8_validation(_, _, _)
run_utf8_validation(v, i, chars) ==
  IF i > Len(v) THEN [ok |-> TRUE, val |-> chars]
  ELSE
    LET first == v[i]
        w == utf8_char_width(first)
        have(k) == i + k <= Len(v)
    IN  CASE w = 1 -> run_utf8_validation(v, i + 1, Append(chars, first))
          [] w = 2 ->
               IF have(1) /\ IsCont(v[i + 1])
                 THEN run_utf8_validation(v, i + 2,
                        Append(chars, (first % 32) * 64 + (v[i + 1] % 64)))
                 ELSE [ok |-> FALSE, err |-> Utf8Error(i - 1)]
          [] w = 3 ->
               IF have(2) /\ SecondByteOk(first, v[i + 1]) /\ IsCont(v[i + 2])
                 THEN run_utf8_validation(v, i + 3,
                        Append(chars, ((first % 16) * 64 + (v[i + 1] % 64)) * 64 + (v[i + 2] % 64)))
                 ELSE [ok |-> FALSE, err |-> Utf8Error(i - 1)]
          [] w = 4 ->
               IF have(3) /\ SecondByteOk(first, v[i + 1]) /\ IsCont(v[i + 2]) /\ IsCont(v[i + 3])
                 THEN run_utf8_validation(v, i + 4,
                        Append(chars, (((first % 8) * 64 + (v[i + 1] % 64)) * 64 + (v[i + 2] % 64)) * 64
                                        + (v[i + 3] % 64)))
                 ELSE [ok |-> FALSE, err |-> Utf8Error(i - 1)]
          [] OTHER -> [ok |-> FALSE, err |-> Utf8Error(i - 1)]

\* std::str::from_utf8
from_utf8(v) == run_utf8_validation(v, 1, << >>)

\* A variant of data_as_string that stops at the first space.
data_as_string_word(c) ==
  from_utf8(IF \E i \in 1..Len(c.data) : c.data[i] = 32
              THEN SubSeq(c.data, 1, (CHOOSE i \in 1..Len(c.data) :
                                        /\ c.data[i] = 32
                                        /\ \A j \in 1..(i - 1) : c.data[j] # 32) - 1)
              ELSE c.data)

\* Chunk::data_as_string
data_as_string(c) == from_utf8(c.data)

\* A variant of crc that also covers the length field.
crc_with_length(c) ==
  checksum(to_be_bytes(U32FromUsize(data_length(c))) \o bytes(c.chunk_type) \o c.data)

\* Chunk::crc: the checksum of the 4 type bytes followed by the data.
crc(c) == checksum(bytes(c.chunk_type) \o c.data)

\* Chunk::as_bytes
Chunk_as_bytes(c) ==
  to_be_bytes(U32FromUsize(data_length(c)))
    \o bytes(c.chunk_type)
    \o c.data
    \o to_be_bytes(crc(c))

\* ChunkError values.
IoError == [kind |-> "IoError"]

ChuckType(e) == [kind |-> "ChuckType", source |-> e]

InvalidLength(length) == [kind |-> "InvalidLength", length |-> length]

CrcError(expected, actual) == [kind |-> "Crc", expected |-> expected, actual |-> actual]

\* The outcome of a failed assert_eq!: the thread panics.
Panicked == [kind |-> "panic"]

\* Read::read_exact on a reader over a slice: n bytes and the rest of the
\* slice, or UnexpectedEof when fewer than n bytes are left.
read_exact(reader, n) ==
  IF Len(reader) < n
    THEN [ok |-> FALSE]
    ELSE [ok |-> TRUE, buf |-> SubSeq(reader, 1, n),
          rest |-> SubSeq(reader, n + 1, Len(reader))]

\* A variant of read_length that masks the top bit off instead of rejecting.
read_length_masked(reader) ==
  LET r == read_exact(reader, 4)
  IN  IF ~r.ok THEN [ok |-> FALSE, err |-> IoError]
      ELSE [ok |-> TRUE,
            val |-> UsizeFromU32(from_be_bytes([r.buf EXCEPT ![1] = @ % 128])),
            rest |-> r.rest]

\* read_length
read_length(reader) ==
  LET r == read_exact(reader, 4)
  IN  IF ~r.ok THEN [ok |-> FALSE, err |-> IoError]
      ELSE LET length_byte == r.buf
               length == from_be_bytes(length_byte)
           IN  IF get_bit(length_byte[1], MOST_SIG)
                 THEN [ok |-> FALSE, err |-> InvalidLength(length)]
                 ELSE [ok |-> TRUE, val |-> UsizeFromU32(length), rest |-> r.rest]

\* read_chunk_type
read_chunk_type(reader) ==
  LET r == read_exact(reader, 4)
  IN  IF ~r.ok THEN [ok |-> FALSE, err |-> IoError]
      ELSE LET t == ChunkType_try_from(r.buf)
           IN  IF ~t.ok THEN [ok |-> FALSE, err |-> ChuckType(t.err)]
               ELSE [ok |-> TRUE, val |-> t.val, rest |-> r.rest]

\* A variant of read_data that stops one byte short of the length.
read_data_short(reader, length) ==
  LET r == read_exact(reader, IF length > 0 THEN length - 1 ELSE 0)
  IN  IF ~r.ok THEN [ok |-> FALSE, err |-> IoError]
      ELSE [ok |-> TRUE, val |-> r.buf, rest |-> r.rest]

\* read_data
read_data(reader, length) ==
  LET r == read_exact(reader, length)
  IN  IF ~r.ok THEN [ok |-> FALSE, err |-> IoError]
      ELSE [ok |-> TRUE, val |-> r.buf, rest |-> r.rest]

\* read_crc
read_crc(reader) ==
  LET r == read_exact(reader, 4)
  IN  IF ~r.ok THEN [ok |-> FALSE, err |-> IoError]
      ELSE [ok |-> TRUE, val |-> from_be_bytes(r.buf), rest |-> r.rest]

\* A variant of validate_crc that accepts any checksum field.
validate_crc_unchecked(chunk, wire) == [ok |-> TRUE, chunk |-> chunk]

\* The validation at the end of Chunk::try_from.
validate_crc(chunk, wire) ==
  IF crc(chunk) # wire
    THEN [ok |-> FALSE, err |-> CrcError(crc(chunk), wire)]
    ELSE [ok |-> TRUE, chunk |-> chunk]

\* A variant of Chunk::try_from that reads the four fields first and looks
\* at the chunk type afterwards.
Chunk_try_from_reads_first(value) ==
  LET length == read_length(value)
  IN  IF ~length.ok THEN [ok |-> FALSE, err |-> length.err]
      ELSE
  LET raw == read_exact(length.rest, 4)
  IN  IF ~raw.ok THEN [ok |-> FALSE, err |-> IoError]
      ELSE
  LET data == read_data(raw.rest, length.val)
  IN  IF ~data.ok THEN [ok |-> FALSE, err |-> data.err]
      ELSE
  LET wire == read_crc(data.rest)
  IN  IF ~wire.ok THEN [ok |-> FALSE, err |-> wire.err]
      ELSE
  LET chunk_type == read_chunk_type(length.rest)
  IN  IF ~chunk_type.ok THEN [ok |-> FALSE, err |-> chunk_type.err]
      ELSE validate_crc(Chunk_new(chunk_type.val, data.val), wire.val)

\* impl TryFrom<&[u8]> for Chunk
Chunk_try_from(value) ==
  LET length == read_length(value)
  IN  IF ~length.ok THEN [ok |-> FALSE, err |-> length.err]
      ELSE
  LET chunk_type == read_chunk_type(length.rest)
  IN  IF ~chunk_type.ok THEN [ok |-> FALSE, err |-> chunk_type.err]
      ELSE
  LET data == read_data(chunk_type.rest, length.val)
  IN  IF ~data.ok THEN [ok |-> FALSE, err |-> data.err]
      ELSE
  LET wire == read_crc(data.rest)
  IN  IF ~wire.ok THEN [ok |-> FALSE, err |-> wire.err]
      ELSE IF Len(data.val) # length.val THEN [ok |-> FALSE, err |-> Panicked]
      ELSE validate_crc(Chunk_new(chunk_type.val, data.val), wire.val)

\* The number of bytes Chunk::try_from has taken from its reader when it
\* returns a chunk: the four reads, one after the other.
consumed(value) ==
  LET length == read_length(value)
      chunk_type == read_chunk_type(length.rest)
      data == read_data(chunk_type.rest, length.val)
      wire == read_crc(data.rest)
  IN  Len(value) - Len(wire.rest)

\* ------------------------------------------------------------------ Png
\* Png::STANDARD_HEADER
STANDARD_HEADER == << 137, 80, 78, 71, 13, 10, 26, 10 >>

\* Png::from_chunks
from_chunks(cs) == [chunks |-> cs]

\* A variant of append_chunk that replaces a chunk of the same type if the
\* container holds one.
append_chunk_replacing(p, c) ==
  IF \E i \in 1..Len(p.chunks) : p.chunks[i].chunk_type = c.chunk_type
    THEN [p EXCEPT !.chunks =
            [i \in 1..Len(@) |-> IF @[i].chunk_type = c.chunk_type THEN c ELSE @[i]]]
    ELSE [p EXCEPT !.chunks = Append(@, c)]

\* Png::append_chunk: Vec::push
append_chunk(p, c) == [p EXCEPT !.chunks = Append(@, c)]

\* A variant of position that finds the highest index.
position_last(cs, t) ==
  IF \E i \in 1..Len(cs) : cs[i].chunk_type = t
    THEN CHOOSE i \in 1..Len(cs) :
           /\ cs[i].chunk_type = t
           /\ \A j \in (i + 1)..Len(cs) : cs[j].chunk_type # t
    ELSE 0

\* Iterator::position over the chunks: the lowest index whose chunk has the
\* type t, 0 for None.
position(cs, t) ==
  IF \E i \in 1..Len(cs) : cs[i].chunk_type = t
    THEN CHOOSE i \in 1..Len(cs) :
           /\ cs[i].chunk_type = t
           /\ \A j \in 1..(i - 1) : cs[j].chunk_type # t
    ELSE 0

\* Vec::swap_remove: the element at index is taken out and the last element
\* is moved into its place.
swap_remove(vec, index) ==
  [i \in 1..(Len(vec) - 1) |-> IF i = index THEN vec[Len(vec)] ELSE vec[i]]

\* PngError values.
PngHeader == [kind |-> "Header"]

PngIo == [kind |-> "Io"]

PngChunk(e) == [kind |-> "Chunk", source |-> e]

PngChunkType(e) == [kind |-> "ChunkType", source |-> e]

ChunckTypeNotFound == [kind |-> "ChunckTypeNotFound"]

\* A variant of remove_chunk that falls back to the first chunk when no
\* chunk has the type.
remove_chunk_default(p, chunk_type) ==
  LET found == position(p.chunks, chunk_type)
      index == IF found = 0 THEN 1 ELSE found
  IN  IF Len(p.chunks) = 0
        THEN [ok |-> FALSE, err |-> ChunckTypeNotFound, png |-> p]
        ELSE [ok |-> TRUE, chunk |-> p.chunks[index],
              png |-> [p EXCEPT !.chunks = swap_remove(@, index)]]

\* A variant of remove_chunk that returns the chunk and leaves it in place.
remove_chunk_keep(p, chunk_type) ==
  LET index == position(p.chunks, chunk_type)
  IN  IF index = 0
        THEN [ok |-> FALSE, err |-> ChunckTypeNotFound, png |-> p]
        ELSE [ok |-> TRUE, chunk |-> p.chunks[index], png |-> p]

\* Png::remove and Png::remove_chunk: the result and the container afterwards.
remove_chunk(p, chunk_type) ==
  LET index == position(p.chunks, chunk_type)
  IN  IF index = 0
        THEN [ok |-> FALSE, err |-> ChunckTypeNotFound, png |-> p]
        ELSE [ok |-> TRUE, chunk |-> p.chunks[index],
              png |-> [p EXCEPT !.chunks = swap_remove(@, index)]]

\* ChunkType::from_str on the bytes of the string.
ChunkType_from_str(s) ==
  IF Len(s) # 4
    THEN [ok |-> FALSE, err |-> [kind |-> "InvalidLength"]]
    ELSE ChunkType_try_from(s)

\* Png::chunk_by_type: Iterator::find, the first chunk of the type, or None.
chunk_by_type(p, s) ==
  LET t == ChunkType_from_str(s)
  IN  IF t.ok /\ position(p.chunks, t.val) # 0
        THEN [some |-> TRUE, index |-> position(p.chunks, t.val),
              chunk |-> p.chunks[position(p.chunks, t.val)]]
        ELSE [some |-> FALSE]

RECURSIVE flat_map_as_bytes_rev(_, _)
\* A variant of flat_map_as_bytes that emits the chunks last to first.
flat_map_as_bytes_rev(cs, i) ==
  IF i > Len(cs) THEN << >>
  ELSE flat_map_as_bytes_rev(cs, i + 1) \o Chunk_as_bytes(cs[i])

RECURSIVE flat_map_as_bytes(_, _)
\* chunks.iter().flat_map(Chunk::as_bytes) from index i on.
flat_map_as_bytes(cs, i) ==
  IF i > Len(cs) THEN << >>
  ELSE Chunk_as_bytes(cs[i]) \o flat_map_as_bytes(cs, i + 1)

\* Png::as_bytes
Png_as_bytes(p) == STANDARD_HEADER \o flat_map_as_bytes(p.chunks, 1)

\* A text written by a Display implementation: its pieces in order, the
\* values formatted into it standing for their digits.
Written(pieces) == [ok |-> TRUE, text |-> pieces]

\* impl Display for std::io::Error
IoError_fmt(e) == Written(<< "io error" >>)

\* impl Display for ChunkTypeError
ChunkTypeError_fmt(e) ==
  IF e.kind = "InvalidByte"
    THEN Written(<< "invalid '", e.which, "' byte: ['", << e.value >>, "'/'", e.value,
                    "'].\nChunk type codes are restricted to consist of uppercase or lowercase ASCII letters (A-Z or a-z)." >>)
    ELSE Written(<< "invalid length: chunk type codes are 4-bytes: ", "could not convert slice to array" >>)

\* impl Display for ChunkError
ChunkError_fmt(e) ==
  CASE e.kind = "IoError" ->
         Written(<< "encountered an io error while reading bytes: ", "failed to fill whole buffer" >>)
    [] e.kind = "ChuckType" -> ChunkTypeError_fmt(e.source)
    [] e.kind = "InvalidLength" ->
         Written(<< "invalid chunk data length '", e.length, "': length must not exceed 2^32 bytes." >>)
    [] e.kind = "Length" ->
         Written(<< "length mismatch: given '", e.expected, "' != '", e.actual, "' actual" >>)
    [] e.kind = "Crc" ->
         Written(<< "crc mismatch: given '", e.expected, "' != '", e.actual, "' actual" >>)

\* impl Display for PngError: todo!() panics for ChunckTypeNotFound.
PngError_fmt(e) ==
  CASE e.kind = "ChunkType" -> ChunkTypeError_fmt(e.source)
    [] e.kind = "Chunk" -> ChunkError_fmt(e.source)
    [] e.kind = "Io" -> IoError_fmt(e)
    [] e.kind = "Header" -> Written(<< "header is not png standard\n" >>)
    [] e.kind = "ChunckTypeNotFound" -> [ok |-> FALSE, err |-> Panicked]

\* ------------------------------------------------------------ the inputs
\* The chunk types drawn as inputs: "RuSt", "teSt" and "AZaz".
TypeInputs == { << 82, 117, 83, 116 >>, << 116, 101, 83, 116 >>, << 65, 90, 97, 122 >> }

\* The byte values payloads and appended tails are made of.
DataBytes == {0, 255}

SeqsUpTo(S, n) == UNION { [1..k -> S] : k \in 0..n }

\* The bytes of "This is where your secret message will be!".
SecretMessage ==
  << 84, 104, 105, 115, 32, 105, 115, 32, 119, 104, 101, 114, 101, 32, 121, 111,
     117, 114, 32, 115, 101, 99, 114, 101, 116, 32, 109, 101, 115, 115, 97, 103,
     101, 32, 119, 105, 108, 108, 32, 98, 101, 33 >>

\* The chunk of the tests: "RuSt" with the message.
testing_chunk == Chunk_new(ChunkType_try_from(<< 82, 117, 83, 116 >>).val, SecretMessage)

ChunkInputs ==
  { Chunk_new(ChunkType_try_from(t).val, d) : t \in TypeInputs, d \in SeqsUpTo(DataBytes, MaxData) }
    \cup { testing_chunk }

Tails == SeqsUpTo(DataBytes, MaxTail) \ { << >> }

\* The byte with bit number bit inverted.
FlipBitOf(byte, bit) ==
  IF BitOf(byte, bit) = 1 THEN byte - Pow2(bit) ELSE byte + Pow2(bit)

NotRun == [ok |-> FALSE, err |-> [kind |-> "NotRun"]]

\* The chunks containers are built from: "RuSt" and "teSt", empty or one byte.
PngChunkInputs ==
  { Chunk_new(ChunkType_try_from(t).val, d) :
      t \in { << 82, 117, 83, 116 >>, << 116, 101, 83, 116 >> }, d \in { << >>, << 255 >> } }

Containers == SeqsUpTo(PngChunkInputs, MaxChunks)

DecodeContainers == SeqsUpTo(PngChunkInputs, MaxDecoded)

\* The strings looked up: "RuSt", "teSt", "Ru1t" (not a letter) and "RuS".
StrInputs ==
  { << 82, 117, 83, 116 >>, << 116, 101, 83, 116 >>, << 82, 117, 49, 116 >>, << 82, 117, 83 >> }

\* The chunk codec in use: the chunk built, the bytes on the way, the damage
\* done to them, the result of the decode and the text read from it.
VARIABLES chunk, cbytes, flip, resize, cres, ctext, cpc

\* A container in use: the Png value, the last call made on it and the call
\* before that.
VARIABLES png, last, prior

\* A run of Png::try_from: its argument and where it came from, the position
\* in the function, the slice v, the local chunks, the value returned and the
\* number of calls of Chunk::try_from made.
VARIABLES value, origin, pc, v, decoded, result, calls

cvars == << chunk, cbytes, flip, resize, cres, ctext, cpc >>

pvars == << png, last, prior >>

\* A chunk type in use: the bytes or string given, the conversion called and
\* its result, the answers of the property methods, and a second chunk type
\* with the result of comparing the two.
VARIABLES tvalue, tvia, tres, tprops, tother, teq, tpc

dvars == << value, origin, pc, v, decoded, result, calls >>

\* The commands in use: the files by path, the bytes written to the standard
\* output, the command that ran with its arguments, the files before it and
\* its result, and the rendering of its error.
VARIABLES fs, stdout, ran, shown

tvars == << tvalue, tvia, tres, tprops, tother, teq, tpc >>

fvars == << fs, stdout, ran, shown >>

vars == << cvars, pvars, dvars, tvars, fvars >>

NoCall == [op |-> "none", arg |-> << >>, before |-> from_chunks(<< >>), ret |-> NotRun]

NoDamage == [flip |-> << >>, cut |-> -1, tail |-> << >>]

\* The variables of the parts a specification does not exercise.
ChunkIdle ==
  /\ chunk = Chunk_new(ChunkType_try_from(<< 82, 117, 83, 116 >>).val, << >>)
  /\ cbytes = << >>
  /\ flip = << >>
  /\ resize = "none"
  /\ cres = NotRun
  /\ ctext = NotRun
  /\ cpc = "idle"

PngIdle ==
  /\ png = from_chunks(<< >>)
  /\ last = NoCall
  /\ prior = NoCall

\* The paths the commands are given.
Paths == { "in.png", "out.png" }

\* No file at a path, and a file with its bytes.
NoFile == [exists |-> FALSE]

FileOf(b) == [exists |-> TRUE, bytes |-> b]

NoCommand == [op |-> "none"]

CommandsIdle ==
  /\ fs = [p \in Paths |-> NoFile]
  /\ stdout = << >>
  /\ ran = NoCommand
  /\ shown = NotRun

NoProps ==
  [critical |-> FALSE, public |-> FALSE, reserved_bit_valid |-> FALSE,
   safe_to_copy |-> FALSE, valid |-> FALSE]

TypeIdle ==
  /\ tvalue = << >>
  /\ tvia = "none"
  /\ tres = NotRun
  /\ tprops = NoProps
  /\ tother = ChunkType_try_from(<< 82, 117, 83, 116 >>).val
  /\ teq = FALSE
  /\ tpc = "idle"

DecodeIdle ==
  /\ value = << >>
  /\ origin = [chunks |-> << >>, damage |-> NoDamage]
  /\ pc = "idle"
  /\ v = << >>
  /\ decoded = << >>
  /\ result = NotRun
  /\ calls = 0

\* ------------------------------------------------- the chunk codec in use
\* A chunk is built with Chunk::new, encoded with as_bytes, the bytes are
\* possibly damaged on the way (one bit inverted, then cut short or
\* followed by more bytes), and decoded with Chunk::try_from.
InitChunk ==
  /\ chunk \in ChunkInputs
  /\ cbytes = << >>
  /\ flip = << >>
  /\ resize = "none"
  /\ cres = NotRun
  /\ ctext = NotRun
  /\ cpc = "new"
  /\ PngIdle
  /\ DecodeIdle
  /\ TypeIdle
  /\ CommandsIdle

AsBytes ==
  /\ cpc = "new"
  /\ cbytes' = Chunk_as_bytes(chunk)
  /\ cpc' = "encoded"
  /\ UNCHANGED << chunk, flip, resize, cres, ctext, pvars, dvars, tvars, fvars >>

FlipBit ==
  /\ cpc = "encoded"
  /\ flip = << >>
  /\ resize = "none"
  /\ \E pos \in 1..Len(cbytes), bit \in 0..7 :
       /\ cbytes' = [cbytes EXCEPT ![pos] = FlipBitOf(@, bit)]
       /\ flip' = << pos, bit >>
  /\ UNCHANGED << chunk, resize, cres, cpc, ctext, pvars, dvars, tvars, fvars >>

Truncate ==
  /\ cpc = "encoded"
  /\ resize = "none"
  /\ \E n \in 0..(Len(cbytes) - 1) : cbytes' = SubSeq(cbytes, 1, n)
  /\ resize' = "truncated"
  /\ UNCHANGED << chunk, flip, cres, ctext, cpc, pvars, dvars, tvars, fvars >>

Extend ==
  /\ cpc = "encoded"
  /\ resize = "none"
  /\ \E tail \in Tails : cbytes' = cbytes \o tail
  /\ resize' = "extended"
  /\ UNCHANGED << chunk, flip, cres, ctext, cpc, pvars, dvars, tvars, fvars >>

TryFrom ==
  /\ cpc = "encoded"
  /\ cres' = Chunk_try_from(cbytes)
  /\ cpc' = "decoded"
  /\ UNCHANGED << chunk, cbytes, flip, resize, ctext, pvars, dvars, tvars, fvars >>

DataAsString ==
  /\ cpc = "decoded"
  /\ cres.ok
  /\ ctext' = data_as_string(cres.chunk)
  /\ cpc' = "read"
  /\ UNCHANGED << chunk, cbytes, flip, resize, cres, pvars, dvars, tvars, fvars >>

NextChunk == AsBytes \/ FlipBit \/ Truncate \/ Extend \/ TryFrom \/ DataAsString

SpecChunk == InitChunk /\ [][NextChunk]_vars

\* ---------------------------------------------------- a container in use
\* A container is built with Png::from_chunks and then chunks are appended,
\* removed and looked up, and the container is encoded, in any order.
InitPng ==
  /\ \E cs \in Containers :
       /\ png = from_chunks(cs)
       /\ last = [op |-> "from_chunks", arg |-> cs, before |-> from_chunks(<< >>), ret |-> NotRun]
  /\ prior = NoCall
  /\ ChunkIdle
  /\ DecodeIdle
  /\ TypeIdle
  /\ CommandsIdle

AppendChunk ==
  /\ Len(png.chunks) < MaxChunks
  /\ \E c \in PngChunkInputs :
       /\ png' = append_chunk(png, c)
       /\ last' = [op |-> "append_chunk", arg |-> c, before |-> png, ret |-> NotRun]
  /\ prior' = last
  /\ UNCHANGED << cvars, dvars, tvars, fvars >>

RemoveChunk ==
  /\ \E c \in PngChunkInputs :
       LET r == remove_chunk(png, c.chunk_type)
       IN  /\ png' = r.png
           /\ last' = [op |-> "remove_chunk", arg |-> c.chunk_type, before |-> png,
                       ret |-> IF r.ok THEN [ok |-> TRUE, chunk |-> r.chunk]
                                       ELSE [ok |-> FALSE, err |-> r.err]]
  /\ prior' = last
  /\ UNCHANGED << cvars, dvars, tvars, fvars >>

ChunkByType ==
  /\ \E s \in StrInputs :
       last' = [op |-> "chunk_by_type", arg |-> s, before |-> png,
                ret |-> chunk_by_type(png, s)]
  /\ prior' = last
  /\ UNCHANGED << png, cvars, dvars, tvars, fvars >>

PngAsBytes ==
  /\ last' = [op |-> "as_bytes", arg |-> << >>, before |-> png, ret |-> Png_as_bytes(png)]
  /\ prior' = last
  /\ UNCHANGED << png, cvars, dvars, tvars, fvars >>

NextPng == AppendChunk \/ RemoveChunk \/ ChunkByType \/ PngAsBytes

SpecPng == InitPng /\ [][NextPng]_vars

\* ------------------------------------------------- a run of Png::try_from
\* The bytes b after the damage d: one bit inverted, cut to d.cut bytes,
\* followed by d.tail.
Damaged(b, d) ==
  LET flipped == IF d.flip = << >> THEN b
                 ELSE [b EXCEPT ![d.flip[1]] = FlipBitOf(@, d.flip[2])]
      kept == IF d.cut < 0 THEN flipped ELSE SubSeq(flipped, 1, d.cut)
  IN  kept \o d.tail

\* The damage done to an encoded container of n bytes: none; a bit of the
\* signature inverted, alone or with bytes added at the end; a bit after
\* the signature inverted; the buffer cut short; bytes added at the end.
Damages(n) ==
  { NoDamage }
    \cup { [flip |-> << pos, bit >>, cut |-> -1, tail |-> t] :
             pos \in 1..8, bit \in 0..7, t \in Tails \cup { << >> } }
    \cup { [flip |-> << pos, bit >>, cut |-> -1, tail |-> << >>] :
             pos \in 9..n, bit \in 0..7 }
    \cup { [flip |-> << >>, cut |-> k, tail |-> << >>] : k \in 0..(n - 1) }
    \cup { [flip |-> << >>, cut |-> -1, tail |-> t] : t \in Tails }

\* The argument is the encoding of a container built with from_chunks,
\* possibly damaged.
InitDecode ==
  /\ \E cs \in DecodeContainers :
       \E d \in Damages(Len(Png_as_bytes(from_chunks(cs)))) :
         /\ origin = [chunks |-> cs, damage |-> d]
         /\ value = Damaged(Png_as_bytes(from_chunks(cs)), d)
  /\ pc = "start"
  /\ v = << >>
  /\ decoded = << >>
  /\ result = NotRun
  /\ calls = 0
  /\ ChunkIdle
  /\ PngIdle
  /\ TypeIdle
  /\ CommandsIdle

\* A variant of read_header that compares the first 4 bytes only.
read_header_short(reader) ==
  LET r == read_exact(reader, 8)
  IN  IF ~r.ok THEN [ok |-> FALSE, err |-> PngIo]
      ELSE IF SubSeq(r.buf, 1, 4) # SubSeq(STANDARD_HEADER, 1, 4)
        THEN [ok |-> FALSE, err |-> PngHeader]
      ELSE [ok |-> TRUE]

\* The header is read and compared with the signature.
read_header(reader) ==
  LET r == read_exact(reader, 8)
  IN  IF ~r.ok THEN [ok |-> FALSE, err |-> PngIo]
      ELSE IF r.buf # STANDARD_HEADER THEN [ok |-> FALSE, err |-> PngHeader]
      ELSE [ok |-> TRUE]

\* A variant of is_empty that is true of any slice too short for a chunk.
is_empty_short(slice) == Len(slice) < 12

\* <[T]>::is_empty on the slice v, the loop's exit test.
is_empty(slice) == Len(slice) = 0

RECURSIVE try_from_loop(_, _)
\* The loop of Png::try_from on what is left of the buffer (the slice v of
\* the code) with the chunks decoded so far.
try_from_loop(left, chunks) ==
  IF is_empty(left) THEN [ok |-> TRUE, png |-> from_chunks(chunks)]
  ELSE CHOOSE r \in
         { IF ~c.ok
             THEN [ok |-> FALSE, err |-> IF c.err = Panicked THEN Panicked ELSE PngChunk(c.err)]
           ELSE IF size(c.chunk) > Len(left) THEN [ok |-> FALSE, err |-> Panicked]
           ELSE try_from_loop(SubSeq(left, size(c.chunk) + 1, Len(left)),
                              Append(chunks, c.chunk)) :
           c \in { Chunk_try_from(left) } } : TRUE

\* impl TryFrom<&[u8]> for Png, on the bytes of a buffer.
Png_try_from(buffer) ==
  LET header == read_header(buffer)
  IN  IF ~header.ok THEN [ok |-> FALSE, err |-> header.err]
      ELSE try_from_loop(SubSeq(buffer, 9, Len(buffer)), << >>)

\* Lines 22-42: the signature check, then v = &value[8..].
TryFromHeader ==
  /\ pc = "start"
  /\ LET header == read_header(value)
     IN  IF ~header.ok
           THEN /\ result' = [ok |-> FALSE, err |-> header.err]
                /\ pc' = "done"
                /\ v' = v
           ELSE /\ v' = SubSeq(value, 9, Len(value))
                /\ pc' = "loop"
                /\ result' = result
  /\ UNCHANGED << value, origin, decoded, calls, cvars, pvars, tvars, fvars >>

\* Lines 44-46 and 53: no bytes remain, the container is returned.
TryFromBreak ==
  /\ pc = "loop"
  /\ is_empty(v)
  /\ result' = [ok |-> TRUE, png |-> from_chunks(decoded)]
  /\ pc' = "done"
  /\ UNCHANGED << value, origin, v, decoded, calls, cvars, pvars, tvars, fvars >>

\* Lines 47-50: one chunk is decoded from the front of v and v advances by
\* its size; an error of the chunk decode is returned wrapped.  Slicing past
\* the end of v panics.
TryFromChunk ==
  /\ pc = "loop"
  /\ ~is_empty(v)
  /\ calls' = calls + 1
  /\ LET c == Chunk_try_from(v)
     IN  IF ~c.ok
           THEN /\ result' = [ok |-> FALSE,
                              err |-> IF c.err = Panicked THEN Panicked ELSE PngChunk(c.err)]
                /\ pc' = "done"
                /\ UNCHANGED << v, decoded >>
         ELSE IF size(c.chunk) > Len(v)
           THEN /\ result' = [ok |-> FALSE, err |-> Panicked]
                /\ pc' = "done"
                /\ UNCHANGED << v, decoded >>
         ELSE /\ decoded' = Append(decoded, c.chunk)
              /\ v' = SubSeq(v, size(c.chunk) + 1, Len(v))
              /\ UNCHANGED << result, pc >>
  /\ UNCHANGED << value, origin, cvars, pvars, tvars, fvars >>

NextDecode == TryFromHeader \/ TryFromBreak \/ TryFromChunk

SpecDecode == InitDecode /\ [][NextDecode]_vars

\* --------------------------------------------- properties of the chunk codec
\* The number a 4-byte big-endian field with a clear top bit stands for.
WireNumber(b) == ((b[1] * 256 + b[2]) * 256 + b[3]) * 256 + b[4]

\* The bytes b are the big-endian form of the u32 w.
IsBigEndianOf(b, w) ==
  /\ Len(b) = 4
  /\ \A k \in 1..4 : b[k] = w[4 - k]

Undamaged == flip = << >> /\ resize = "none"

\* The buffer holds a whole chunk record with a legal length and type.
WellFramed(b) ==
  /\ Len(b) >= 12
  /\ b[1] < 128
  /\ \A k \in 5..8 : (b[k] \in 65..90) \/ (b[k] \in 97..122)
  /\ Len(b) >= 12 + WireNumber(SubSeq(b, 1, 4))

\* The checksum field of a well-framed buffer.
WireCrcField(b) ==
  SubSeq(b, 9 + WireNumber(SubSeq(b, 1, 4)), 12 + WireNumber(SubSeq(b, 1, 4)))

\* The type and data region of a well-framed buffer.
WireCovered(b) == SubSeq(b, 5, 8 + WireNumber(SubSeq(b, 1, 4)))

\* C2: decoding the encoding of a chunk built with Chunk::new succeeds and
\* gives back the same type bytes, the same data and the same crc.
C2_ChunkRoundTrip ==
  (cpc = "decoded" /\ Undamaged) =>
    /\ cres.ok
    /\ bytes(cres.chunk.chunk_type) = bytes(chunk.chunk_type)
    /\ cres.chunk.data = chunk.data
    /\ crc(cres.chunk) = crc(chunk)

C2_Witness ==
  /\ cpc = "decoded"
  /\ Undamaged
  /\ cres.ok
  /\ Len(chunk.data) >= 1

\* C4: a chunk returned by Chunk::try_from carries a checksum field equal to
\* the checksum recomputed from its type and data; when a whole record is
\* read and the field differs from the recomputed value, the result is the
\* Crc error with the recomputed and the read value, and no chunk.
C4_CrcVerified ==
  cpc = "decoded" =>
    /\ cres.ok =>
         /\ WellFramed(cbytes)
         /\ IsBigEndianOf(WireCrcField(cbytes), crc(cres.chunk))
         /\ bytes(cres.chunk.chunk_type) \o cres.chunk.data = WireCovered(cbytes)
    /\ (WellFramed(cbytes)
          /\ ~IsBigEndianOf(WireCrcField(cbytes), checksum(WireCovered(cbytes)))) =>
         /\ ~cres.ok
         /\ cres.err.kind = "Crc"
         /\ cres.err.expected = checksum(WireCovered(cbytes))
         /\ IsBigEndianOf(WireCrcField(cbytes), cres.err.actual)

C4_Witness ==
  /\ cpc = "decoded"
  /\ resize = "none"
  /\ flip # << >>
  /\ flip[1] > Len(cbytes) - 4
  /\ ~cres.ok
  /\ cres.err.kind = "Crc"

\* A single bit of the type or of the data was inverted, nothing else.
FlippedInTypeOrData ==
  /\ cpc = "decoded"
  /\ resize = "none"
  /\ flip # << >>
  /\ flip[1] \in 5..(8 + Len(chunk.data))

\* C5 as stated: inverting any single bit of the type or of the data of a
\* valid encoding makes the decode fail with the Crc error.
C5_AsStated ==
  FlippedInTypeOrData => (~cres.ok /\ cres.err.kind = "Crc")

\* C5 as amended: the decode fails; with the Crc error when the bit is in
\* the data or the damaged type byte is still a letter, and with the
\* chunk-type InvalidByte error for that byte when it is no longer a letter.
C5_FlipDetected ==
  FlippedInTypeOrData =>
    /\ ~cres.ok
    /\ IF flip[1] <= 8 /\ ~(cbytes[flip[1]] \in 65..90 \/ cbytes[flip[1]] \in 97..122)
         THEN /\ cres.err.kind = "ChuckType"
              /\ cres.err.source.kind = "InvalidByte"
              /\ cres.err.source.value = cbytes[flip[1]]
              /\ cres.err.source.which =
                   << "Ancillary", "Private", "Reserved", "SafeToCopy" >>[flip[1] - 4]
         ELSE cres.err.kind = "Crc"

C5_Witness ==
  /\ FlippedInTypeOrData
  /\ flip[1] <= 8
  /\ ~cres.ok
  /\ cres.err.kind = "ChuckType"

\* C8: an input whose length field has its top bit set is rejected with the
\* InvalidLength error carrying that length, whatever the rest of the buffer
\* holds; no chunk is produced.
C8_LengthTopBitRejected ==
  (cpc = "decoded" /\ Len(cbytes) >= 4 /\ cbytes[1] >= 128) =>
    /\ ~cres.ok
    /\ cres.err.kind = "InvalidLength"
    /\ IsBigEndianOf(SubSeq(cbytes, 1, 4), cres.err.length)

C8_Witness ==
  /\ cpc = "decoded"
  /\ flip = << 1, 7 >>
  /\ resize = "extended"
  /\ cbytes[1] >= 128
  /\ ~cres.ok

\* C9: as_bytes is the data length as 4 big-endian bytes, the 4 type bytes,
\* the data, and the 4 big-endian bytes of the CRC-32 of type and data; for
\* the empty "teSt" chunk that checksum is 0x4DFB5AAE.
C9_AsBytesLayout ==
  (cpc = "encoded" /\ Undamaged) =>
    /\ Len(cbytes) = 12 + Len(chunk.data)
    /\ cbytes[1] < 128
    /\ WireNumber(SubSeq(cbytes, 1, 4)) = Len(chunk.data)
    /\ SubSeq(cbytes, 5, 8) =
         << chunk.chunk_type.ancillary, chunk.chunk_type.private,
            chunk.chunk_type.reserved, chunk.chunk_type.safe_to_copy >>
    /\ SubSeq(cbytes, 9, 8 + Len(chunk.data)) = chunk.data
    /\ IsBigEndianOf(SubSeq(cbytes, 9 + Len(chunk.data), 12 + Len(chunk.data)),
                     checksum(SubSeq(cbytes, 5, 8 + Len(chunk.data))))
    /\ (SubSeq(cbytes, 5, Len(cbytes) - 4) = << 116, 101, 83, 116 >>) =>
         SubSeq(cbytes, 9, 12) = << 77, 251, 90, 174 >>

C9_Witness ==
  /\ cpc = "encoded"
  /\ Undamaged
  /\ Len(chunk.data) >= 1
  /\ Len(cbytes) = 12 + Len(chunk.data)

\* ------------------------------------------- properties of the container
RECURSIVE EndOffset(_, _)
\* The number of bytes of an encoded container up to the end of chunk k.
EndOffset(cs, k) == IF k = 0 THEN 8 ELSE EndOffset(cs, k - 1) + 12 + Len(cs[k].data)

\* The sequence s without its element i.
WithoutIndex(s, i) == SubSeq(s, 1, i - 1) \o SubSeq(s, i + 1, Len(s))

\* C1: decoding the encoding of a container built with from_chunks succeeds
\* and gives the same number of chunks with, position by position, the same
\* type bytes and the same data.
C1_PngRoundTrip ==
  (pc = "done" /\ origin.damage = NoDamage) =>
    /\ result.ok
    /\ Len(result.png.chunks) = Len(origin.chunks)
    /\ \A i \in 1..Len(origin.chunks) :
         /\ bytes(result.png.chunks[i].chunk_type) = bytes(origin.chunks[i].chunk_type)
         /\ result.png.chunks[i].data = origin.chunks[i].data

C1_Witness ==
  /\ pc = "done"
  /\ origin.damage = NoDamage
  /\ result.ok
  /\ Len(origin.chunks) >= 2
  /\ origin.chunks[1] # origin.chunks[2]
  /\ calls = Len(origin.chunks)

\* C3: remove_chunk(t) on a container holding a chunk of type t returns the
\* first such chunk and leaves the other chunks in their previous order.
C3_StableRemove ==
  (last.op = "remove_chunk" /\ last.ret.ok) =>
    \E i \in 1..Len(last.before.chunks) :
      /\ last.before.chunks[i].chunk_type = last.arg
      /\ \A j \in 1..(i - 1) : last.before.chunks[j].chunk_type # last.arg
      /\ last.ret.chunk = last.before.chunks[i]
      /\ png.chunks = WithoutIndex(last.before.chunks, i)

\* C6: a buffer of 8 bytes or more that does not start with the signature
\* is rejected with the Header error before any chunk decode is attempted,
\* and no chunk decode is ever attempted on such a buffer.
C6_BadSignature ==
  (Len(value) >= 8 /\ SubSeq(value, 1, 8) # << 137, 80, 78, 71, 13, 10, 26, 10 >>) =>
    /\ calls = 0
    /\ pc = "done" => (~result.ok /\ result.err.kind = "Header")

C6_Witness ==
  /\ pc = "done"
  /\ ~result.ok
  /\ result.err.kind = "Header"
  /\ origin.damage.tail # << >>
  /\ Len(origin.chunks) >= 1
  /\ Len(value) > 8

\* C7: a successful decode has consumed the whole buffer as back-to-back
\* chunk records; bytes left after the last whole chunk (junk added at the
\* end, or a record cut short) make the decode fail with the wrapped chunk
\* error.
C7_FullyConsumed ==
  pc = "done" =>
    /\ result.ok =>
         /\ v = << >>
         /\ Len(value) = EndOffset(result.png.chunks, Len(result.png.chunks))
         /\ SubSeq(value, 1, 8) = << 137, 80, 78, 71, 13, 10, 26, 10 >>
         /\ \A i \in 1..Len(result.png.chunks) :
              SubSeq(value, EndOffset(result.png.chunks, i - 1) + 1,
                     EndOffset(result.png.chunks, i))
                = Chunk_as_bytes(result.png.chunks[i])
    /\ (origin.damage.flip = << >> /\ origin.damage.tail # << >>) =>
         (~result.ok /\ result.err.kind = "Chunk" /\ calls = Len(origin.chunks) + 1)
    /\ (origin.damage.cut >= 8
          /\ \A k \in 0..Len(origin.chunks) : origin.damage.cut # EndOffset(origin.chunks, k)) =>
         (~result.ok /\ result.err.kind = "Chunk" /\ result.err.source.kind = "IoError")

C7_Witness ==
  /\ pc = "done"
  /\ origin.damage.flip = << >>
  /\ origin.damage.tail # << >>
  /\ Len(origin.chunks) >= 1
  /\ ~result.ok
  /\ result.err.kind = "Chunk"
  /\ Len(decoded) = Len(origin.chunks)

\* C10: as_bytes returns the signature followed by the encodings of the
\* chunks the container holds at the time of the call, in order, and
\* nothing else.
C10_PngAsBytes ==
  last.op = "as_bytes" =>
    /\ last.before = png
    /\ Len(last.ret) = EndOffset(png.chunks, Len(png.chunks))
    /\ SubSeq(last.ret, 1, 8) = << 137, 80, 78, 71, 13, 10, 26, 10 >>
    /\ \A i \in 1..Len(png.chunks) :
         SubSeq(last.ret, EndOffset(png.chunks, i - 1) + 1, EndOffset(png.chunks, i))
           = Chunk_as_bytes(png.chunks[i])

C10_Witness ==
  /\ last.op = "as_bytes"
  /\ Len(png.chunks) >= 2
  /\ png.chunks[1] # png.chunks[2]
  /\ Len(last.ret) > 8 + 24

\* Some chunk of the sequence cs has the type t.
HoldsType(cs, t) == \E i \in 1..Len(cs) : cs[i].chunk_type = t

\* C11: append_chunk always succeeds and leaves the previous sequence, in
\* its order, followed by the new chunk, also when a chunk of the same type
\* is already held.
C11_AppendAtEnd ==
  last.op = "append_chunk" =>
    /\ Len(png.chunks) = Len(last.before.chunks) + 1
    /\ \A i \in 1..Len(last.before.chunks) : png.chunks[i] = last.before.chunks[i]
    /\ png.chunks[Len(png.chunks)] = last.arg

C11_Witness ==
  /\ last.op = "append_chunk"
  /\ HoldsType(last.before.chunks, last.arg.chunk_type)
  /\ Len(png.chunks) = Len(last.before.chunks) + 1
  /\ Len(last.before.chunks) >= 2

\* C12: remove_chunk(t) on a container holding no chunk of type t fails with
\* ChunckTypeNotFound and leaves the chunk sequence as it was.
C12_RemoveMissing ==
  (last.op = "remove_chunk" /\ ~HoldsType(last.before.chunks, last.arg)) =>
    /\ ~last.ret.ok
    /\ last.ret.err.kind = "ChunckTypeNotFound"
    /\ png.chunks = last.before.chunks

C12_Witness ==
  /\ last.op = "remove_chunk"
  /\ ~HoldsType(last.before.chunks, last.arg)
  /\ Len(last.before.chunks) >= 2
  /\ ~last.ret.ok

\* C13: chunk_by_type(s) returns the first chunk whose type bytes are s, and
\* None when no chunk has them, also when s is not a valid chunk type; the
\* chunk sequence is unchanged.
C13_LookupFirst ==
  last.op = "chunk_by_type" =>
    /\ png = last.before
    /\ IF \E i \in 1..Len(png.chunks) :
            << png.chunks[i].chunk_type.ancillary, png.chunks[i].chunk_type.private,
               png.chunks[i].chunk_type.reserved, png.chunks[i].chunk_type.safe_to_copy >>
              = last.arg
         THEN /\ last.ret.some
              /\ last.ret.chunk = png.chunks[last.ret.index]
              /\ bytes(png.chunks[last.ret.index].chunk_type) = last.arg
              /\ \A j \in 1..(last.ret.index - 1) : bytes(png.chunks[j].chunk_type) # last.arg
         ELSE ~last.ret.some

C13_Witness ==
  /\ last.op = "chunk_by_type"
  /\ last.ret.some
  /\ last.ret.index = 1
  /\ Len(png.chunks) >= 2
  /\ png.chunks[2].chunk_type = png.chunks[1].chunk_type
  /\ png.chunks[2].data # png.chunks[1].data

\* C14: on a container holding no chunk of type t, appending a chunk c of
\* type t and then removing by type t returns c and leaves the chunk
\* sequence the container had before the append.
C14_AppendThenRemove ==
  (/\ last.op = "remove_chunk"
   /\ prior.op = "append_chunk"
   /\ last.arg = prior.arg.chunk_type
   /\ ~HoldsType(prior.before.chunks, last.arg)) =>
    /\ last.ret.ok
    /\ last.ret.chunk = prior.arg
    /\ png.chunks = prior.before.chunks

C14_Witness ==
  /\ last.op = "remove_chunk"
  /\ prior.op = "append_chunk"
  /\ last.arg = prior.arg.chunk_type
  /\ ~HoldsType(prior.before.chunks, last.arg)
  /\ Len(prior.before.chunks) >= 2
  /\ last.ret.ok
  /\ png.chunks = prior.before.chunks

\* Payload lengths as u32 values, each with the big-endian bytes of the
\* length plus 12: 0, 1, 243, 244, 65524, 2^31 - 13 and 2^31 - 1.
SizeCases ==
  { << << 0, 0, 0, 0 >>, << 0, 0, 0, 12 >> >>,
    << << 0, 0, 0, 1 >>, << 0, 0, 0, 13 >> >>,
    << << 0, 0, 0, 243 >>, << 0, 0, 0, 255 >> >>,
    << << 0, 0, 0, 244 >>, << 0, 0, 1, 0 >> >>,
    << << 0, 0, 255, 244 >>, << 0, 1, 0, 0 >> >>,
    << << 127, 255, 255, 243 >>, << 127, 255, 255, 255 >> >>,
    << << 127, 255, 255, 255 >>, << 128, 0, 0, 11 >> >> }

\* C15: size() is 12 plus the payload length, without wrap-around also in 32
\* bits up to a length of 2^31 - 1; for a decoded chunk it is the length of
\* as_bytes() and the number of bytes the decode took from the front of its
\* input, whatever follows them.
C15_Size ==
  /\ cpc = "new" =>
       /\ \A sc \in SizeCases :
            /\ ~size_u32(from_be_bytes(sc[1])).overflow
            /\ to_be_bytes(size_u32(from_be_bytes(sc[1])).val) = sc[2]
       /\ size(chunk) = 12 + Len(chunk.data)
       /\ UsizeFromU32(size_u32(U32FromUsize(Len(chunk.data))).val) = size(chunk)
  /\ (cpc = "decoded" /\ cres.ok) =>
       /\ size(cres.chunk) = 12 + Len(cres.chunk.data)
       /\ size(cres.chunk) = Len(Chunk_as_bytes(cres.chunk))
       /\ size(cres.chunk) = consumed(cbytes)
       /\ size(cres.chunk) <= Len(cbytes)
       /\ SubSeq(cbytes, 1, size(cres.chunk)) = Chunk_as_bytes(cres.chunk)

C15_Witness ==
  /\ cpc = "decoded"
  /\ cres.ok
  /\ resize = "extended"
  /\ Len(cres.chunk.data) = MaxData
  /\ consumed(cbytes) = 12 + MaxData
  /\ Len(cbytes) > consumed(cbytes)

\* --------------------------------------------------- a chunk type in use
\* The byte values chunk type inputs are made of: the letters at the ends of
\* both ranges, their neighbours outside the ranges, '1', 0 and 255.
TypeBytes == {0, 49, 64, 65, 90, 91, 96, 97, 122, 123, 255}

\* The strings "RuSt", "Rust", "teSt", "RuS" and "RuSty".
TypeStrings ==
  { << 82, 117, 83, 116 >>, << 82, 117, 115, 116 >>, << 116, 101, 83, 116 >>,
    << 82, 117, 83 >>, << 82, 117, 83, 116, 121 >> }

\* The chunk types a constructed one is compared with.
OtherTypes ==
  { ChunkType_try_from(b).val :
      b \in [1..4 -> {65, 122}] \cup { << 82, 117, 83, 116 >>, << 82, 117, 115, 116 >> } }

\* Bytes or a string are given, converted with ChunkType::try_from (four
\* bytes) or ChunkType::from_str, and a chunk type that came out is asked
\* for its properties or compared with another one.
InitType ==
  /\ tvalue \in [1..4 -> TypeBytes] \cup TypeStrings
  /\ tvia = "none"
  /\ tres = NotRun
  /\ tprops = NoProps
  /\ tother = ChunkType_try_from(<< 82, 117, 83, 116 >>).val
  /\ teq = FALSE
  /\ tpc = "given"
  /\ ChunkIdle
  /\ PngIdle
  /\ DecodeIdle
  /\ CommandsIdle

TypeTryFrom ==
  /\ tpc = "given"
  /\ Len(tvalue) = 4
  /\ tres' = ChunkType_try_from(tvalue)
  /\ tvia' = "try_from"
  /\ tpc' = "converted"
  /\ UNCHANGED << tvalue, tprops, tother, teq, cvars, pvars, dvars, fvars >>

\* A &str holds UTF-8: the strings given are ASCII.
TypeFromStr ==
  /\ tpc = "given"
  /\ \A i \in 1..Len(tvalue) : tvalue[i] < 128
  /\ tres' = ChunkType_from_str(tvalue)
  /\ tvia' = "from_str"
  /\ tpc' = "converted"
  /\ UNCHANGED << tvalue, tprops, tother, teq, cvars, pvars, dvars, fvars >>

TypeProperties ==
  /\ tpc = "converted"
  /\ tres.ok
  /\ tprops' = [critical |-> is_critical(tres.val),
                public |-> is_public(tres.val),
                reserved_bit_valid |-> is_reserved_bit_valid(tres.val),
                safe_to_copy |-> is_safe_to_copy(tres.val),
                valid |-> is_valid(tres.val)]
  /\ tpc' = "asked"
  /\ UNCHANGED << tvalue, tvia, tres, tother, teq, cvars, pvars, dvars, fvars >>

TypeEq ==
  /\ tpc = "converted"
  /\ tres.ok
  /\ \E other \in OtherTypes :
       /\ tother' = other
       /\ teq' = ChunkType_eq(tres.val, other)
  /\ tpc' = "compared"
  /\ UNCHANGED << tvalue, tvia, tres, tprops, cvars, pvars, dvars, fvars >>

NextType == TypeTryFrom \/ TypeFromStr \/ TypeProperties \/ TypeEq

SpecType == InitType /\ [][NextType]_vars

\* The byte is an ASCII letter.
IsLetter(b) == (b >= 65 /\ b <= 90) \/ (b >= 97 /\ b <= 122)

\* Bit 5 of the byte.
Bit5(b) == (b \div 32) % 2

\* The name of the field at each position of the four bytes.
FieldName == << "Ancillary", "Private", "Reserved", "SafeToCopy" >>

\* C16: on four letters ChunkType::try_from succeeds and bytes() of the
\* result gives the same four bytes in the same order; two chunk types are
\* equal exactly when their four bytes are equal.
C16_LettersAccepted ==
  /\ (tvia = "try_from" /\ \A i \in 1..4 : IsLetter(tvalue[i])) =>
       /\ tres.ok
       /\ bytes(tres.val) = tvalue
  /\ tpc = "compared" =>
       /\ bytes(tres.val) = tvalue
       /\ teq = (\A i \in 1..4 : bytes(tres.val)[i] = bytes(tother)[i])
       /\ teq = (tres.val = tother)

C16_Witness ==
  /\ tpc = "compared"
  /\ tvia = "try_from"
  /\ tvalue = << 82, 117, 115, 116 >>
  /\ bytes(tother) = << 82, 117, 83, 116 >>
  /\ ~teq

\* C17: on four bytes of which one at least is no letter ChunkType::try_from
\* fails with InvalidByte, naming the first such position and the byte's
\* value, and gives no chunk type.
C17_FirstInvalidByte ==
  (tvia = "try_from" /\ \E i \in 1..4 : ~IsLetter(tvalue[i])) =>
    LET first == CHOOSE i \in 1..4 :
                   /\ ~IsLetter(tvalue[i])
                   /\ \A j \in 1..(i - 1) : IsLetter(tvalue[j])
    IN  /\ ~tres.ok
        /\ "val" \notin DOMAIN tres
        /\ tres.err.kind = "InvalidByte"
        /\ tres.err.which = FieldName[first]
        /\ tres.err.value = tvalue[first]

C17_Witness ==
  /\ tvia = "try_from"
  /\ tvalue = << 65, 49, 97, 123 >>
  /\ ~tres.ok
  /\ tres.err = [kind |-> "InvalidByte", which |-> "Private", value |-> 49]

\* C18: is_critical holds when bit 5 of byte 0 is 0, is_public when bit 5 of
\* byte 1 is 0, is_reserved_bit_valid when bit 5 of byte 2 is 0 and
\* is_safe_to_copy when bit 5 of byte 3 is 1; "RuSt" is critical, not public,
\* reserved-bit valid and safe to copy.
C18_PropertyBits ==
  tpc = "asked" =>
    /\ tprops.critical = (Bit5(tvalue[1]) = 0)
    /\ tprops.public = (Bit5(tvalue[2]) = 0)
    /\ tprops.reserved_bit_valid = (Bit5(tvalue[3]) = 0)
    /\ tprops.safe_to_copy = (Bit5(tvalue[4]) = 1)
    /\ tvalue = << 82, 117, 83, 116 >> =>
         /\ tprops.critical
         /\ ~tprops.public
         /\ tprops.reserved_bit_valid
         /\ tprops.safe_to_copy

C18_Witness ==
  /\ tpc = "asked"
  /\ tvalue = << 82, 117, 83, 116 >>
  /\ tprops.critical
  /\ ~tprops.public
  /\ tprops.reserved_bit_valid
  /\ tprops.safe_to_copy

SecretText ==
  << 84, 104, 105, 115, 32, 105, 115, 32, 119, 104, 101, 114, 101, 32,
     121, 111, 117, 114, 32, 115, 101, 99, 114, 101, 116, 32,
     109, 101, 115, 115, 97, 103, 101, 32, 119, 105, 108, 108, 32, 98, 101, 33 >>

\* The chunk in use is "RuSt" with the message.
IsSecretChunk ==
  /\ bytes(chunk.chunk_type) = << 82, 117, 83, 116 >>
  /\ chunk.data = SecretText

\* C20 as stated: the encoding of "RuSt" with the message declares length
\* 44, is 56 bytes long and carries the checksum 2882656334; decoding it
\* succeeds and data_as_string() gives the message.
C20_AsStated ==
  (IsSecretChunk /\ cpc # "new" /\ Undamaged) =>
    /\ WireNumber(SubSeq(cbytes, 1, 4)) = 44
    /\ Len(cbytes) = 56
    /\ SubSeq(cbytes, 53, 56) = << 171, 209, 216, 78 >>
    /\ cpc \in {"decoded", "read"} => cres.ok
    /\ cpc = "read" => (ctext.ok /\ ctext.val = SecretText)

\* C20: the encoding of "RuSt" with the message declares length 42, the
\* number of bytes of the message, is 54 bytes long and carries the checksum
\* 2882656334, in bytes AB D1 D8 4E; decoding it succeeds and
\* data_as_string() gives the message.
C20_SecretMessage ==
  (IsSecretChunk /\ cpc # "new" /\ Undamaged) =>
    /\ Len(chunk.data) = 42
    /\ WireNumber(SubSeq(cbytes, 1, 4)) = 42
    /\ Len(cbytes) = 54
    /\ SubSeq(cbytes, 51, 54) = << 171, 209, 216, 78 >>
    /\ cpc \in {"decoded", "read"} =>
         /\ cres.ok
         /\ bytes(cres.chunk.chunk_type) = << 82, 117, 83, 116 >>
         /\ cres.chunk.data = SecretText
    /\ cpc = "read" => (ctext.ok /\ ctext.val = SecretText)

C20_Witness ==
  /\ IsSecretChunk
  /\ Undamaged
  /\ cpc = "read"
  /\ Len(cbytes) = 54
  /\ ctext.ok
  /\ ctext.val = SecretText

\* C21: the decode reads length, type, data and crc in this order and
\* reports the error of the first step that fails: IoError for a field cut
\* short, InvalidLength before the type is looked at, the chunk-type error
\* before a cut in the data, and Crc only after all four reads; every proper
\* prefix of an encoding fails with IoError.
C21_FirstFailingStep ==
  cpc = "decoded" =>
    /\ IF Len(cbytes) < 4
         THEN ~cres.ok /\ cres.err.kind = "IoError"
       ELSE IF cbytes[1] >= 128
         THEN ~cres.ok /\ cres.err.kind = "InvalidLength"
       ELSE IF Len(cbytes) < 8
         THEN ~cres.ok /\ cres.err.kind = "IoError"
       ELSE IF \E k \in 5..8 : ~(cbytes[k] \in 65..90 \/ cbytes[k] \in 97..122)
         THEN ~cres.ok /\ cres.err.kind = "ChuckType"
       ELSE IF Len(cbytes) - 8 < WireNumber(SubSeq(cbytes, 1, 4))
         THEN ~cres.ok /\ cres.err.kind = "IoError"
       ELSE IF Len(cbytes) - 12 < WireNumber(SubSeq(cbytes, 1, 4))
         THEN ~cres.ok /\ cres.err.kind = "IoError"
       ELSE cres.ok \/ cres.err.kind = "Crc"
    /\ (flip = << >> /\ resize = "truncated") =>
         ~cres.ok /\ cres.err.kind = "IoError"

C21_Witness ==
  /\ cpc = "decoded"
  /\ flip # << >>
  /\ resize = "truncated"
  /\ Len(cbytes) = 8
  /\ cbytes[1] < 128
  /\ WireNumber(SubSeq(cbytes, 1, 4)) > 0
  /\ ~cres.ok
  /\ cres.err.kind = "ChuckType"

\* C22: whenever the read of the data succeeds it has read as many bytes as
\* the length field declares, so the length check after the reads never
\* fails, whatever the buffer holds.
C22_LengthCheckNeverFires ==
  cpc = "decoded" =>
    /\ cres.ok \/ cres.err # Panicked
    /\ cres.ok => Len(cres.chunk.data) = WireNumber(SubSeq(cbytes, 1, 4))
    /\ LET length == read_length(cbytes)
       IN  length.ok =>
             LET chunk_type == read_chunk_type(length.rest)
             IN  chunk_type.ok =>
                   LET data == read_data(chunk_type.rest, length.val)
                   IN  data.ok => Len(data.val) = WireNumber(SubSeq(cbytes, 1, 4))

C22_Witness ==
  /\ cpc = "decoded"
  /\ flip # << >>
  /\ flip[1] > 8 + Len(chunk.data)
  /\ resize = "extended"
  /\ Len(chunk.data) = MaxData
  /\ ~cres.ok
  /\ cres.err.kind = "Crc"

RECURSIVE SumOfSizes(_)
\* 12 bytes and the data, for every chunk of the sequence.
SumOfSizes(cs) ==
  IF cs = << >> THEN 0 ELSE 12 + Len(Head(cs).data) + SumOfSizes(Tail(cs))

\* Where the run of Png::try_from stands: nothing is read outside the
\* buffer, and the slice v is what is left of it after the chunks decoded.
CursorInside ==
  /\ result # [ok |-> FALSE, err |-> Panicked]
  /\ (pc = "done" /\ Len(value) < 8) => result = [ok |-> FALSE, err |-> PngIo]
  /\ pc = "loop" =>
       /\ Len(value) >= 8
       /\ Len(v) = Len(value) - 8 - SumOfSizes(decoded)
       /\ v = SubSeq(value, Len(value) - Len(v) + 1, Len(value))
       /\ calls = Len(decoded)
  /\ (pc = "done" /\ result.ok) =>
       /\ Len(v) = 0
       /\ Len(value) = 8 + SumOfSizes(result.png.chunks)
  /\ (pc = "done" /\ value = STANDARD_HEADER) => result = [ok |-> TRUE, png |-> from_chunks(<< >>)]
  /\ 12 * calls <= Len(value) + 4

\* One step of the loop: an error is returned, or the container is returned
\* when nothing is left, or v loses the 12 or more bytes of one chunk.
LoopAdvances ==
  pc = "loop" =>
    \/ pc' = "done" /\ ~result'.ok /\ Len(v) > 0
    \/ pc' = "done" /\ result'.ok /\ Len(v) = 0
    \/ /\ pc' = "loop"
       /\ Len(decoded') = Len(decoded) + 1
       /\ Len(v) - Len(v') = 12 + Len(decoded'[Len(decoded')].data)
       /\ Len(v) - Len(v') <= Len(v)

\* C23: Png::try_from ends on every buffer and reads nothing outside it: a
\* buffer of fewer than 8 bytes fails with the Io error, each turn of the
\* loop returns an error or moves v forward by size() >= 12 and by no more
\* than is left, so that the turns are bounded by the length of the buffer,
\* and the loop ends when nothing is left (the signature alone decodes to
\* the empty container).
C23_CursorAdvances ==
  /\ []CursorInside
  /\ [][LoopAdvances]_vars

C23_Witness ==
  /\ pc = "done"
  /\ result.ok
  /\ calls = MaxDecoded
  /\ Len(v) = 0
  /\ Len(value) > 8 + 12 * MaxDecoded

\* ------------------------------------------------------ the commands in use
MaxFileChunks == 3

\* char::encode_utf8: the bytes of one character.
encode_utf8(c) ==
  IF c < 128 THEN << c >>
  ELSE IF c < 2048 THEN << 192 + (c \div 64), 128 + (c % 64) >>
  ELSE IF c < 65536
    THEN << 224 + (c \div 4096), 128 + ((c \div 64) % 64), 128 + (c % 64) >>
  ELSE << 240 + (c \div 262144), 128 + ((c \div 4096) % 64),
          128 + ((c \div 64) % 64), 128 + (c % 64) >>

RECURSIVE str_as_bytes(_)
\* str::as_bytes: the UTF-8 bytes of the characters of a text.
str_as_bytes(text) ==
  IF text = << >> THEN << >>
  ELSE encode_utf8(Head(text)) \o str_as_bytes(Tail(text))

\* impl Display for ChunkType, as to_string() gives it.
ChunkType_to_string(t) == from_utf8(bytes(t)).val

\* A std::io::Error of the file system, and an anyhow error made by bail!.
OsError(what) == [kind |-> "Os", what |-> what]

Bailed(text) == [kind |-> "Msg", text |-> text]

\* read_png: the file is opened and read to its end, and the bytes decoded.
read_png(files, path) ==
  IF ~files[path].exists THEN [ok |-> FALSE, err |-> OsError("NotFound")]
  ELSE Png_try_from(files[path].bytes)

\* File::create: the file is there and empty afterwards.
File_create(files, path) == [files EXCEPT ![path] = FileOf(<< >>)]

\* commands::encode: the files, the standard output and the value returned.
encode(files, out, args, can_create) ==
  IF args.output_file.some /\ ~can_create
    THEN [fs |-> files, stdout |-> out, ret |-> [ok |-> FALSE, err |-> OsError("create")]]
  ELSE
    LET created == IF args.output_file.some
                     THEN File_create(files, args.output_file.path)
                     ELSE files
        read == read_png(created, args.path)
    IN  IF ~read.ok
          THEN [fs |-> created, stdout |-> out, ret |-> [ok |-> FALSE, err |-> read.err]]
        ELSE
          LET c == Chunk_new(args.chunk_type, str_as_bytes(args.message))
              written == Png_as_bytes(append_chunk(read.png, c))
          IN  IF args.output_file.some
                THEN [fs |-> [created EXCEPT ![args.output_file.path] = FileOf(written)],
                      stdout |-> out, ret |-> [ok |-> TRUE]]
                ELSE [fs |-> created, stdout |-> out \o written, ret |-> [ok |-> TRUE]]

\* commands::decode
decode(files, out, args) ==
  LET read == read_png(files, args.path)
  IN  IF ~read.ok
        THEN [fs |-> files, stdout |-> out, ret |-> [ok |-> FALSE, err |-> read.err]]
      ELSE
        LET found == chunk_by_type(read.png, str_as_bytes(ChunkType_to_string(args.chunk_type)))
        IN  IF ~found.some THEN [fs |-> files, stdout |-> out, ret |-> [ok |-> TRUE]]
            ELSE LET text == data_as_string(found.chunk)
                 IN  IF text.ok
                       THEN [fs |-> files, stdout |-> out \o str_as_bytes(text.val) \o << 10 >>,
                             ret |-> [ok |-> TRUE]]
                       ELSE [fs |-> files, stdout |-> out,
                             ret |-> [ok |-> FALSE, err |-> Bailed("message not valid UTF-8")]]

\* commands::remove
remove(files, out, args, can_create) ==
  LET read == read_png(files, args.path)
  IN  IF ~read.ok
        THEN [fs |-> files, stdout |-> out, ret |-> [ok |-> FALSE, err |-> read.err]]
      ELSE
        LET removed == remove_chunk(read.png, args.chunk_type)
        IN  IF ~removed.ok
              THEN [fs |-> files, stdout |-> out, ret |-> [ok |-> FALSE, err |-> removed.err]]
            ELSE IF ~can_create
              THEN [fs |-> files, stdout |-> out, ret |-> [ok |-> FALSE, err |-> OsError("create")]]
            ELSE [fs |-> [File_create(files, args.path) EXCEPT
                            ![args.path] = FileOf(Png_as_bytes(removed.png))],
                  stdout |-> out, ret |-> [ok |-> TRUE]]

\* The error of a command as shown to the user: the Display of what the
\* anyhow::Error holds.
error_fmt(e) ==
  CASE e.kind = "Os" -> IoError_fmt(e)
    [] e.kind = "Msg" -> Written(<< e.text >>)
    [] OTHER -> PngError_fmt(e)

\* The bytes a file may hold: the encodings of containers, nothing, half a
\* signature, a wrong signature, and chunks cut short or with a wrong crc.
FileBytes ==
  { Png_as_bytes(from_chunks(cs)) : cs \in SeqsUpTo(PngChunkInputs, MaxFileChunks) }
    \cup { << >>,
           SubSeq(STANDARD_HEADER, 1, 4),
           [STANDARD_HEADER EXCEPT ![1] = 0],
           STANDARD_HEADER \o << 0, 0, 0, 0, 82, 117 >>,
           STANDARD_HEADER \o << 0, 0, 0, 0, 82, 117, 83, 116, 0, 0, 0, 0 >> }

\* The texts given as messages: "", "A" and "é".
Messages == { << >>, << 65 >>, << 233 >> }

CommandTypes ==
  { ChunkType_try_from(t).val : t \in { << 82, 117, 83, 116 >>, << 116, 101, 83, 116 >> } }

OutputFiles == { [some |-> FALSE] } \cup { [some |-> TRUE, path |-> p] : p \in Paths }

\* The files before a command runs.
InitCommands ==
  /\ \E a \in { NoFile } \cup { FileOf(b) : b \in FileBytes },
        b \in { NoFile, FileOf(<< >>), FileOf(Png_as_bytes(from_chunks(<< >>))) } :
       fs = [p \in Paths |-> IF p = "in.png" THEN a ELSE b]
  /\ stdout = << >>
  /\ ran = NoCommand
  /\ shown = NotRun
  /\ ChunkIdle
  /\ PngIdle
  /\ DecodeIdle
  /\ TypeIdle

Encode ==
  /\ ran = NoCommand
  /\ \E path \in Paths, chunk_type \in CommandTypes, message \in Messages,
        output_file \in OutputFiles, can_create \in BOOLEAN :
       LET args == [path |-> path, chunk_type |-> chunk_type, message |-> message,
                    output_file |-> output_file]
           r == encode(fs, stdout, args, can_create)
       IN  /\ fs' = r.fs
           /\ stdout' = r.stdout
           /\ ran' = [op |-> "encode", args |-> args, before |-> fs, ret |-> r.ret]
  /\ UNCHANGED << shown, cvars, pvars, dvars, tvars >>

Decode ==
  /\ ran = NoCommand
  /\ \E path \in Paths, chunk_type \in CommandTypes :
       LET args == [path |-> path, chunk_type |-> chunk_type]
           r == decode(fs, stdout, args)
       IN  /\ fs' = r.fs
           /\ stdout' = r.stdout
           /\ ran' = [op |-> "decode", args |-> args, before |-> fs, ret |-> r.ret]
  /\ UNCHANGED << shown, cvars, pvars, dvars, tvars >>

Remove ==
  /\ ran = NoCommand
  /\ \E path \in Paths, chunk_type \in CommandTypes, can_create \in BOOLEAN :
       LET args == [path |-> path, chunk_type |-> chunk_type]
           r == remove(fs, stdout, args, can_create)
       IN  /\ fs' = r.fs
           /\ stdout' = r.stdout
           /\ ran' = [op |-> "remove", args |-> args, before |-> fs, ret |-> r.ret]
  /\ UNCHANGED << shown, cvars, pvars, dvars, tvars >>

\* The error a command returned is shown.
Report ==
  /\ ran # NoCommand
  /\ ~ran.ret.ok
  /\ shown = NotRun
  /\ shown' = error_fmt(ran.ret.err)
  /\ UNCHANGED << fs, stdout, ran, cvars, pvars, dvars, tvars >>

NextCommands == Encode \/ Decode \/ Remove \/ Report

SpecCommands == InitCommands /\ [][NextCommands]_vars

\* ---------------------------------------------------- claims on the commands
\* The bytes encode is to write: the encoding of the container decoded from
\* the input as it was before the command, with the message chunk last.
Embedded(before, args) ==
  Png_as_bytes(append_chunk(read_png(before, args.path).png,
                            Chunk_new(args.chunk_type, str_as_bytes(args.message))))

\* C24: encode touches the output file only after the input was read and
\* decoded: when reading or decoding the input fails no file is created or
\* truncated; when the input decodes (also when the output path is the input
\* path) the command fails only for File::create and then leaves the files
\* alone, and otherwise the output holds the encoding of the decoded
\* container with the message chunk appended last.
C24_OutputAfterRead ==
  ran.op = "encode" =>
    LET input == read_png(ran.before, ran.args.path)
    IN  /\ ~input.ok => (~ran.ret.ok /\ fs = ran.before)
        /\ (input.ok /\ ~ran.ret.ok) =>
             (ran.ret.err = OsError("create") /\ fs = ran.before)
        /\ (input.ok /\ ran.ret.ok /\ ran.args.output_file.some) =>
             fs = [ran.before EXCEPT ![ran.args.output_file.path] =
                     FileOf(Embedded(ran.before, ran.args))]
        /\ (input.ok /\ ran.ret.ok /\ ~ran.args.output_file.some) =>
             (fs = ran.before /\ stdout = Embedded(ran.before, ran.args))

\* C25: remove rewrites the file only after decoding and removal succeeded:
\* when the file does not decode or holds no chunk of the type the command
\* returns an error, every failure leaves the files as they were, and on
\* success the file holds the encoding of the decoded chunks without the
\* first chunk of the type.
C25_RewriteAfterRemoval ==
  ran.op = "remove" =>
    LET input == read_png(ran.before, ran.args.path)
        index == IF input.ok THEN position(input.png.chunks, ran.args.chunk_type) ELSE 0
    IN  /\ index = 0 => ~ran.ret.ok
        /\ ~ran.ret.ok => fs = ran.before
        /\ ran.ret.ok =>
             fs = [ran.before EXCEPT ![ran.args.path] =
                     FileOf(Png_as_bytes(from_chunks(
                              WithoutIndex(input.png.chunks, index))))]

\* C26: the error a command returned is rendered by Display as a text,
\* without a panic, whichever PngError it holds.
C26_ErrorsRender == shown # NotRun => shown.ok

====
